---- MODULE Spec2Model ----
(***************************************************************************)
(* The PomodoroTimer component (src/src/components/PomodoroTimer.tsx) as a *)
(* state machine.  The file holds two variants of the component: the       *)
(* two-tone one (lines 1-292), whose playNotificationSound wraps the audio *)
(* code in try/catch and raises a system notification, and the single-tone *)
(* one (lines 293-530), whose playNotificationSound has no try/catch.      *)
(* Everything else is the same in both.                                    *)
(*                                                                         *)
(* One action per callback of the component: the click and change handlers,*)
(* the setInterval callback, the clock effect (the first useEffect, which  *)
(* React runs after a render in which isActive or timeLeft changed) and    *)
(* the unmount.  A handler's state updates are rendered, and the clock     *)
(* effect run, before anything else happens (pc = "dirty"); the update of  *)
(* the interval callback is rendered in a later task (pc = "ticked"), so a *)
(* click can still be handled between a tick and the effect that follows.  *)
(*                                                                         *)
(* Time is scaled: the countdown is in seconds as in the source, but a     *)
(* minute has SecondsPerMinute seconds (60 in the source) and the default  *)
(* length is DefaultMinutes minutes (25 in the source).                    *)
(***************************************************************************)
EXTENDS Integers, Sequences, FiniteSets, TLC

\* ------------------------------------------------------------------ bounds
\* The most presets the collection is grown to.
MaxTimers == 2
\* The most presets the collection is grown to while the countdown is never started.
MaxIdleTimers == 3
\* The countdown is not started again once this many sessions are completed.
MaxCompleted == 1
\* Seconds in a minute (the factor 60 of lines 17, 20, 154 and 185), scaled.
SecondsPerMinute == 2
\* The default length in minutes (the factor 25 of lines 17, 20 and 154), scaled.
DefaultMinutes == 2

VARIABLES
    timers,              \* useState<Timer[]>: sequence of [id, name, duration]
    activeTimerId,       \* useState<string>
    timeLeft,            \* useState<number>
    isActive,            \* useState(false)
    completedPomodoros,  \* useState(0)
    isEditing,           \* useState(false)
    editingTimer,        \* useState<EditingTimer | null>: <<>> is null, else <<draft>>
    interval,            \* the handle `interval` of the latest run of the clock effect is set
    intervals,           \* how many setInterval timers are set and not cleared
    effectDeps,          \* <<isActive, timeLeft>> of the render the clock effect last ran for
    pc,                  \* "idle", "ticked" (interval update queued), "dirty" (render queued)
    variant,             \* which of the two components is mounted
    mounted,             \* FALSE once React has unmounted the component
    cue                  \* what the completion of the latest step did to the outside

vars == <<timers, activeTimerId, timeLeft, isActive, completedPomodoros, isEditing,
          editingTimer, interval, intervals, effectDeps, pc, variant, mounted, cue>>

\* ------------------------------------------------------------ environment
Variants == {"two-tone", "single-tone"}
\* The audio code returns, or something in it throws.
AudioOutcomes == {"played", "threw"}
\* "unsupported": no Notification in window; else Notification.permission.
Permissions == {"unsupported", "default", "granted", "denied"}

\* The texts the name field is set to.
NameTexts == {"Focus"}
\* The texts the duration field (type="number") hands to handleDurationChange,
\* as sequences of characters: "", "0", "-1", "1", "2", "01", "1.5".
DurationTexts ==
    { <<>>, <<"0">>, <<"-", "1">>, <<"1">>, <<"2">>, <<"0", "1">>, <<"1", ".", "5">> }

NoCue == [sound |-> "none", logged |-> FALSE, notify |-> "none", permission |-> "none"]

\* -------------------------------------------------------------- functions
DigitValue ==
    [c \in {"0", "1", "2", "3", "4", "5", "6", "7", "8", "9"} |->
        CASE c = "0" -> 0 [] c = "1" -> 1 [] c = "2" -> 2 [] c = "3" -> 3 [] c = "4" -> 4
          [] c = "5" -> 5 [] c = "6" -> 6 [] c = "7" -> 7 [] c = "8" -> 8 [] c = "9" -> 9]

IsDigit(c) == c \in DOMAIN DigitValue

NaN == [nan |-> TRUE, val |-> 0]
Num(n) == [nan |-> FALSE, val |-> n]

RECURSIVE SkipSpace(_)
SkipSpace(s) == IF s # <<>> /\ Head(s) = " " THEN SkipSpace(Tail(s)) ELSE s

RECURSIVE ReadDigits(_, _)
\* The value of the longest prefix of digits of s, after the digits read as acc.
ReadDigits(s, acc) ==
    IF s # <<>> /\ IsDigit(Head(s))
    THEN ReadDigits(Tail(s), 10 * acc + DigitValue[Head(s)])
    ELSE acc

\* JavaScript's parseInt(text) in radix 10: leading blanks, an optional sign, the
\* longest run of digits; NaN when no digit follows.
ParseInt(text) ==
    LET s    == SkipSpace(text)
        neg  == s # <<>> /\ Head(s) = "-"
        body == IF s # <<>> /\ Head(s) \in {"-", "+"} THEN Tail(s) ELSE s
    IN  IF body = <<>> \/ ~IsDigit(Head(body))
        THEN NaN
        ELSE Num(IF neg THEN 0 - ReadDigits(body, 0) ELSE ReadDigits(body, 0))

\* number * 60, where NaN * 60 is NaN.
TimesSecondsPerMinute(n) == IF n.nan THEN NaN ELSE Num(n.val * SecondsPerMinute)

\* A variant of DurationAccepted that forgets the test duration > 0.
DurationAcceptedNotNaN(d) == ~d.nan

\* !isNaN(duration) && duration > 0
DurationAccepted(d) == ~d.nan /\ d.val > 0

\* timers.find(t => t.id === id): the index of the first match, 0 for undefined.
Find(ts, id) ==
    IF \E i \in 1..Len(ts) : ts[i].id = id
    THEN CHOOSE i \in 1..Len(ts) : ts[i].id = id /\ \A j \in 1..(i - 1) : ts[j].id # id
    ELSE 0

DefaultDuration == DefaultMinutes * SecondsPerMinute

InitialTimers == << [id |-> "1", name |-> "Work", duration |-> DefaultDuration] >>

\* Date.now() does not decrease.  Of a reading only its text matters, and only whether
\* it equals an earlier one, so readings are numbered from 2 (no reading prints as "1",
\* the id of the initial preset): the first reading is 2, a later one is the previous
\* one or the next number.
LastReading(ts) ==
    LET taken == {r \in 2..(Len(ts) + 1) : \E i \in 1..Len(ts) : ts[i].id = ToString(r)}
    IN  IF taken = {} THEN 1 ELSE CHOOSE r \in taken : \A q \in taken : q <= r

DateNow(ts) ==
    IF LastReading(ts) = 1 THEN {2} ELSE {LastReading(ts), LastReading(ts) + 1}

\* The deps array of the clock effect: [isActive, timeLeft].
ClockDeps(active, time) == <<active, time>>

\* A variant of ClockShouldArm that forgets the test timeLeft > 0.
ClockShouldArmNoFloor(active, time) == active

\* if (isActive && timeLeft > 0)
ClockShouldArm(active, time) == active /\ time > 0

\* else if (timeLeft === 0)
ClockShouldComplete(active, time) == ~ClockShouldArm(active, time) /\ time = 0

\* {isEditing && editingTimer ? <edit form> : <timer view>}
EditView == isEditing /\ editingTimer # <<>>

\* The state a handler leaves the scheduler in: React renders at once, and the clock
\* effect is queued when the render changed one of its deps.
AfterHandler(active, time) ==
    IF ClockDeps(active, time) = effectDeps THEN "idle" ELSE "dirty"

\* ------------------------------------------------------------------- Init
Init ==
    /\ timers = InitialTimers
    /\ activeTimerId = "1"
    /\ timeLeft = DefaultDuration
    /\ isActive = FALSE
    /\ completedPomodoros = 0
    /\ isEditing = FALSE
    /\ editingTimer = <<>>
    /\ interval = FALSE
    /\ intervals = 0
    /\ effectDeps = ClockDeps(FALSE, DefaultDuration)
    /\ pc = "idle"
    /\ variant \in Variants
    /\ mounted = TRUE
    /\ cue = NoCue

\* A handler runs while the component is mounted and no render is queued by an
\* earlier handler or effect.
Interactive == mounted /\ pc \in {"idle", "ticked"}


\* ------------------------------------------------------- click handlers
\* toggleTimer (lines 132-134).
ToggleTimer ==
    /\ Interactive /\ ~EditView
    /\ isActive \/ completedPomodoros < MaxCompleted
    /\ isActive' = ~isActive
    /\ pc' = AfterHandler(isActive', timeLeft)
    /\ cue' = NoCue
    /\ UNCHANGED <<timers, activeTimerId, timeLeft, completedPomodoros, isEditing,
                   editingTimer, interval, intervals, effectDeps, variant, mounted>>

\* The countdown value resetTimer leaves: the duration of the first preset with the
\* active id, or the value as it was when there is none (lines 138-141).
ResetValue(ts, id, time) == IF Find(ts, id) # 0 THEN ts[Find(ts, id)].duration ELSE time

\* resetTimer (lines 136-142), as the Reset button calls it.
ResetTimer ==
    /\ Interactive /\ ~EditView
    /\ isActive' = FALSE
    /\ timeLeft' = ResetValue(timers, activeTimerId, timeLeft)
    /\ pc' = AfterHandler(isActive', timeLeft')
    /\ cue' = NoCue
    /\ UNCHANGED <<timers, activeTimerId, completedPomodoros, isEditing, editingTimer,
                   interval, intervals, effectDeps, variant, mounted>>

\* A variant of SelectedState that forgets setIsActive(false).
SelectedStateKeepsRunning(timer) ==
    [id |-> timer.id, time |-> timer.duration, active |-> isActive]

\* A variant of SelectedState that stores the preset's name as the active id.
SelectedStateByName(timer) == [id |-> timer.name, time |-> timer.duration, active |-> FALSE]

\* The preset button's onClick (lines 236-240), for the i-th preset shown.
SelectedState(timer) == [id |-> timer.id, time |-> timer.duration, active |-> FALSE]

SelectTimer(i) ==
    /\ Interactive /\ ~EditView
    /\ i \in 1..Len(timers)
    /\ activeTimerId' = SelectedState(timers[i]).id
    /\ timeLeft' = SelectedState(timers[i]).time
    /\ isActive' = SelectedState(timers[i]).active
    /\ pc' = AfterHandler(isActive', timeLeft')
    /\ cue' = NoCue
    /\ UNCHANGED <<timers, completedPomodoros, isEditing, editingTimer, interval, intervals,
                   effectDeps, variant, mounted>>

\* A variant of NewTimer that gives the new preset the length of one minute.
NewTimerOneMinute(now) ==
    [id |-> ToString(now), name |-> "New Timer", duration |-> SecondsPerMinute]

\* The preset addNewTimer builds when Date.now() reads now (lines 151-155).
NewTimer(now) == [id |-> ToString(now), name |-> "New Timer", duration |-> DefaultDuration]

\* addNewTimer (lines 150-157).
AddNewTimer(now) ==
    /\ Interactive /\ ~EditView
    /\ timers' = Append(timers, NewTimer(now))
    /\ pc' = AfterHandler(isActive, timeLeft)
    /\ cue' = NoCue
    /\ UNCHANGED <<activeTimerId, timeLeft, isActive, completedPomodoros, isEditing,
                   editingTimer, interval, intervals, effectDeps, variant, mounted>>

\* A variant of DraftOf that copies the id and the duration but not the name.
DraftOfUnnamed(timer) == [id |-> timer.id, name |-> "", duration |-> timer.duration]

\* The draft startEditing makes of a preset (lines 160-164).
DraftOf(timer) == [id |-> timer.id, name |-> timer.name, duration |-> timer.duration]

\* A variant of StartEditing that also stops the countdown.
StartEditingStops(i) ==
    /\ Interactive /\ ~EditView
    /\ i \in 1..Len(timers)
    /\ editingTimer' = << DraftOf(timers[i]) >>
    /\ isEditing' = TRUE
    /\ isActive' = FALSE
    /\ pc' = AfterHandler(isActive', timeLeft)
    /\ cue' = NoCue
    /\ UNCHANGED <<timers, activeTimerId, timeLeft, completedPomodoros,
                   interval, intervals, effectDeps, variant, mounted>>

\* startEditing (lines 159-166), for the i-th preset shown.
StartEditing(i) ==
    /\ Interactive /\ ~EditView
    /\ i \in 1..Len(timers)
    /\ editingTimer' = << DraftOf(timers[i]) >>
    /\ isEditing' = TRUE
    /\ pc' = AfterHandler(isActive, timeLeft)
    /\ cue' = NoCue
    /\ UNCHANGED <<timers, activeTimerId, timeLeft, isActive, completedPomodoros,
                   interval, intervals, effectDeps, variant, mounted>>

\* ------------------------------------------------------- the edit form
\* The name field's onChange (line 204).
HandleNameChange(text) ==
    /\ Interactive /\ EditView
    /\ editingTimer' = << [editingTimer[1] EXCEPT !.name = text] >>
    /\ pc' = AfterHandler(isActive, timeLeft)
    /\ cue' = NoCue
    /\ UNCHANGED <<timers, activeTimerId, timeLeft, isActive, completedPomodoros,
                   isEditing, interval, intervals, effectDeps, variant, mounted>>

\* The draft handleDurationChange leaves (lines 185-188).
DraftWithDuration(draft, minutes) ==
    LET duration == TimesSecondsPerMinute(ParseInt(minutes))
    IN  IF DurationAccepted(duration)
        THEN [draft EXCEPT !.duration = duration.val]
        ELSE draft

\* handleDurationChange (lines 183-190).
HandleDurationChange(minutes) ==
    /\ Interactive /\ EditView
    /\ editingTimer' = IF editingTimer # <<>>
                       THEN << DraftWithDuration(editingTimer[1], minutes) >>
                       ELSE editingTimer
    /\ pc' = AfterHandler(isActive, timeLeft)
    /\ cue' = NoCue
    /\ UNCHANGED <<timers, activeTimerId, timeLeft, isActive, completedPomodoros,
                   isEditing, interval, intervals, effectDeps, variant, mounted>>

\* timers.map(...) of saveEdit (lines 170-174).
SavedTimers(ts, draft) ==
    [i \in 1..Len(ts) |->
        IF ts[i].id = draft.id
        THEN [ts[i] EXCEPT !.name = draft.name, !.duration = draft.duration]
        ELSE ts[i]]

\* A variant of SavedTimeLeft that forgets the test activeTimerId === editingTimer.id.
SavedTimeLeftAlways(activeId, draft, time) == draft.duration

\* The countdown value saveEdit leaves (lines 175-177).
SavedTimeLeft(activeId, draft, time) == IF activeId = draft.id THEN draft.duration ELSE time

\* saveEdit (lines 168-181), the Confirm button.
SaveEdit ==
    /\ Interactive /\ EditView
    /\ IF editingTimer # <<>>
       THEN /\ timers' = SavedTimers(timers, editingTimer[1])
            /\ timeLeft' = SavedTimeLeft(activeTimerId, editingTimer[1], timeLeft)
       ELSE UNCHANGED <<timers, timeLeft>>
    /\ isEditing' = FALSE
    /\ editingTimer' = <<>>
    /\ pc' = AfterHandler(isActive, timeLeft')
    /\ cue' = NoCue
    /\ UNCHANGED <<activeTimerId, isActive, completedPomodoros, interval, intervals, effectDeps,
                   variant, mounted>>


\* ------------------------------------------------------------ the clock
\* A variant of ClearInterval that clears nothing.
ClearIntervalLeaks(handle, n) == n

\* The cleanup of the clock effect (lines 38-40): if (interval) clearInterval(interval),
\* on the handle of the run it belongs to; n timers were set before.
ClearInterval(handle, n) == IF handle THEN n - 1 ELSE n

\* The setInterval callback (lines 31-33): setTimeLeft((time) => time - 1).  It fires
\* a second after the effect armed it, by when the render it queued before is done.
Tick ==
    /\ mounted /\ intervals > 0 /\ pc = "idle"
    /\ timeLeft' = timeLeft - 1
    /\ pc' = "ticked"
    /\ cue' = NoCue
    /\ UNCHANGED <<timers, activeTimerId, isActive, completedPomodoros, isEditing,
                   editingTimer, interval, intervals, effectDeps, variant, mounted>>

\* The system notification branch of the two-tone playNotificationSound (lines 112-119).
NotifyAction(permission) ==
    IF permission = "granted" THEN "shown"
    ELSE IF permission # "unsupported" /\ permission # "denied" THEN "requested"
    ELSE "none"

\* playNotificationSound: what it does to the outside, and whether it throws to its
\* caller.  Two-tone (lines 73-123): the audio code and the notification are inside one
\* try, whose catch logs.  Single-tone (lines 347-361): the audio code alone, no try.
PlayNotificationSound(v, audio, permission) ==
    IF v = "two-tone"
    THEN [throws |-> FALSE,
          cue |-> [sound |-> audio, logged |-> (audio = "threw"),
                   notify |-> IF audio = "threw" THEN "none" ELSE NotifyAction(permission),
                   permission |-> permission]]
    ELSE [throws |-> (audio = "threw"),
          cue |-> [sound |-> audio, logged |-> FALSE, notify |-> "none",
                   permission |-> permission]]

\* React discards the state of a component it unmounts: the variables take the values
\* a new mount would start with, and no interval is left armed.
Discarded ==
    /\ mounted' = FALSE
    /\ interval' = FALSE
    /\ intervals' = ClearInterval(interval, intervals)
    /\ pc' = "idle"
    /\ timers' = InitialTimers
    /\ activeTimerId' = "1"
    /\ timeLeft' = DefaultDuration
    /\ isActive' = FALSE
    /\ completedPomodoros' = 0
    /\ isEditing' = FALSE
    /\ editingTimer' = <<>>
    /\ effectDeps' = ClockDeps(FALSE, DefaultDuration)

\* A variant of CompletedAfter that counts a completion twice.
CompletedAfterTwice(prev) == prev + 2

\* setCompletedPomodoros((prev) => prev + 1) (line 128).
CompletedAfter(prev) == prev + 1

\* handleTimerComplete (lines 125-130 and 363-368): playNotificationSound(),
\* setIsActive(false), setCompletedPomodoros(prev => prev + 1), resetTimer().  An
\* exception of playNotificationSound leaves the effect by an uncaught exception, and
\* React unmounts the component.
HandleTimerComplete(audio, permission) ==
    LET played == PlayNotificationSound(variant, audio, permission)
    IN  /\ cue' = played.cue
        /\ IF played.throws
           THEN Discarded
           ELSE /\ isActive' = FALSE
                /\ completedPomodoros' = CompletedAfter(completedPomodoros)
                /\ timeLeft' = ResetValue(timers, activeTimerId, timeLeft)
                /\ effectDeps' = ClockDeps(isActive, timeLeft)
                /\ interval' = FALSE
                /\ intervals' = ClearInterval(interval, intervals)
                /\ pc' = IF ClockDeps(isActive', timeLeft') = effectDeps'
                         THEN "idle" ELSE "dirty"
                /\ UNCHANGED <<timers, activeTimerId, isEditing, editingTimer, mounted>>

\* The clock effect (lines 27-41), run for a render that changed isActive or timeLeft:
\* the cleanup of the previous run clears its interval, then the body arms a new
\* interval, or completes the countdown, or does nothing.
ClockEffect ==
    /\ mounted /\ pc # "idle"
    /\ IF ClockShouldArm(isActive, timeLeft)
       THEN /\ interval' = TRUE
            /\ intervals' = ClearInterval(interval, intervals) + 1
            /\ effectDeps' = ClockDeps(isActive, timeLeft)
            /\ pc' = "idle"
            /\ cue' = NoCue
            /\ UNCHANGED <<timers, activeTimerId, timeLeft, isActive, completedPomodoros,
                           isEditing, editingTimer, mounted>>
       ELSE IF ClockShouldComplete(isActive, timeLeft)
       THEN \E audio \in AudioOutcomes, permission \in Permissions :
                HandleTimerComplete(audio, permission)
       ELSE /\ interval' = FALSE
            /\ intervals' = ClearInterval(interval, intervals)
            /\ effectDeps' = ClockDeps(isActive, timeLeft)
            /\ pc' = "idle"
            /\ cue' = NoCue
            /\ UNCHANGED <<timers, activeTimerId, timeLeft, isActive, completedPomodoros,
                           isEditing, editingTimer, mounted>>
    /\ UNCHANGED variant

\* The component is unmounted: the cleanup of the clock effect (lines 38-40) clears
\* the interval.
Unmount ==
    /\ mounted
    /\ Discarded
    /\ cue' = NoCue
    /\ UNCHANGED variant

Next ==
    \/ ToggleTimer
    \/ ResetTimer
    \/ \E i \in 1..Len(timers) : SelectTimer(i)
    \/ \E now \in DateNow(timers) : Len(timers) < MaxTimers /\ AddNewTimer(now)
    \/ \E i \in 1..Len(timers) : StartEditing(i)
    \/ \E text \in NameTexts : HandleNameChange(text)
    \/ \E minutes \in DurationTexts : HandleDurationChange(minutes)
    \/ SaveEdit
    \/ Tick
    \/ ClockEffect
    \/ Unmount

Spec == Init /\ [][Next]_vars

\* The behaviours in which the countdown is never started: the presets are added,
\* selected and edited, and the Reset button is used.
NextIdle ==
    \/ ResetTimer
    \/ \E i \in 1..Len(timers) : SelectTimer(i)
    \/ \E now \in DateNow(timers) : Len(timers) < MaxIdleTimers /\ AddNewTimer(now)
    \/ \E i \in 1..Len(timers) : StartEditing(i)
    \/ \E text \in NameTexts : HandleNameChange(text)
    \/ \E minutes \in DurationTexts : HandleDurationChange(minutes)
    \/ SaveEdit
    \/ ClockEffect
    \/ Unmount

SpecIdle == Init /\ [][NextIdle]_vars


\* ================================================================ claims
\* The clock effect is queued for a render in which the countdown is at zero: its
\* next run takes the branch that calls handleTimerComplete.
Completing == mounted /\ pc # "idle" /\ ClockShouldComplete(isActive, timeLeft)

\* A completion event: the clock effect runs handleTimerComplete.
CompletionEvent == Completing /\ ClockEffect

\* The stored duration of the active preset.
ActiveDuration == timers[Find(timers, activeTimerId)].duration

\* The behaviours in which nothing but the clock acts on a running countdown: once
\* isActive is true only ticks and runs of the clock effect follow, until the effect
\* has cleared it.
NextRun ==
    \/ ~isActive /\ Next
    \/ isActive /\ (Tick \/ ClockEffect)

SpecRun == Init /\ [][NextRun]_vars

\* C1: a countdown that the ticks bring to zero while it is running completes exactly
\* once: the run of the clock effect that follows the last tick leaves the component
\* mounted with isActive false, completedPomodoros greater by one and timeLeft at the
\* stored duration of the active preset, and no second completion is queued for the
\* same crossing of zero.
C1_RunCompletesOnce ==
    [][(pc = "ticked" /\ isActive /\ timeLeft = 0 /\ ClockEffect)
          => /\ mounted'
             /\ isActive' = FALSE
             /\ completedPomodoros' = completedPomodoros + 1
             /\ timeLeft' = ActiveDuration'
             /\ ~Completing']_vars

\* C2: timeLeft is never negative, and a tick fires only on a running countdown above
\* zero, which it lowers by exactly one.
C2_TicksCountDown ==
    /\ [](timeLeft >= 0)
    /\ [][Tick => (isActive /\ timeLeft > 0 /\ timeLeft' = timeLeft - 1)]_vars

\* C2 witness: the last tick of a run has taken the countdown to zero, between an
\* edit of the draft and the effect that follows.
C2_Witness == pc = "ticked" /\ timeLeft = 0 /\ isActive /\ isEditing


\* C3: selecting a preset, from any state in which the preset buttons are shown, makes
\* its id the active id, sets timeLeft to its stored duration and stops the countdown,
\* and the run of the clock effect that follows completes nothing.
C3_SelectStopsAndLoads ==
    [][\A i \in 1..Len(timers) :
          SelectTimer(i)
             => /\ activeTimerId' = timers[i].id
                /\ timeLeft' = timers[i].duration
                /\ isActive' = FALSE
                /\ ~Completing']_vars

\* C3 witness: a preset other than the initial one was selected while the countdown
\* was running below its start value; the effect that clears the interval is queued.
C3_Witness ==
    /\ pc = "dirty" /\ ~isActive /\ activeTimerId # "1"
    /\ effectDeps[1] /\ effectDeps[2] < timeLeft /\ interval

\* C4: saveEdit writes the draft's name and duration to every preset with the draft's
\* id; when that id is the active id it sets timeLeft to the draft's duration, and
\* otherwise leaves timeLeft as it was; isActive is unchanged either way.
C4_CommitSnapsActive ==
    [][SaveEdit
          => /\ isActive' = isActive
             /\ IF activeTimerId = editingTimer[1].id
                THEN timeLeft' = editingTimer[1].duration
                ELSE timeLeft' = timeLeft
             /\ Len(timers') = Len(timers)
             /\ \A i \in 1..Len(timers) :
                   timers[i].id = editingTimer[1].id
                      => /\ timers'[i].name = editingTimer[1].name
                         /\ timers'[i].duration = editingTimer[1].duration]_vars

\* C4 witness: an edit of the active preset was committed while the countdown was
\* running: the countdown is still running and back above the value the clock effect
\* last saw.
C4_Witness ==
    /\ pc = "dirty" /\ isActive /\ ~isEditing
    /\ effectDeps[1] /\ effectDeps[2] < timeLeft /\ timeLeft = ActiveDuration

\* The other case of C4: an edit of a preset that is not active was committed during
\* a run, and timeLeft kept its value.
C4_WitnessOther ==
    /\ pc = "idle" /\ isActive /\ ~isEditing /\ timeLeft < ActiveDuration
    /\ \E i \in 1..Len(timers) : timers[i].id # activeTimerId /\ timers[i].name = "Focus"

\* C5: addNewTimer appends exactly one preset, named "New Timer" and of the default
\* duration, and leaves the active id, timeLeft, isActive, completedPomodoros and the
\* presets already there as they were.
C5_AddAppendsDefault ==
    [][(\E now \in DateNow(timers) : AddNewTimer(now))
          => /\ Len(timers') = Len(timers) + 1
             /\ timers'[Len(timers')].name = "New Timer"
             /\ timers'[Len(timers')].duration = DefaultMinutes * SecondsPerMinute
             /\ SubSeq(timers', 1, Len(timers)) = timers
             /\ UNCHANGED <<activeTimerId, timeLeft, isActive, completedPomodoros>>]_vars

\* C5 witness: a preset was added while the countdown was running; it is the last of
\* the collection and the countdown runs on.
C5_Witness ==
    /\ Len(timers) = 2 /\ timers[2].name = "New Timer" /\ activeTimerId = "1"
    /\ isActive /\ interval /\ timeLeft < ActiveDuration


\* The number a text of digits alone denotes, read from its last digit.
RECURSIVE NumeralValue(_)
NumeralValue(text) ==
    IF text = <<>> THEN 0
    ELSE 10 * NumeralValue(SubSeq(text, 1, Len(text) - 1)) + DigitValue[text[Len(text)]]

\* The text is a whole number of minutes, written in digits.
IsNumeral(text) == text # <<>> /\ \A k \in 1..Len(text) : IsDigit(text[k])

\* The text denotes no number, or a number that is not positive.
NotPositiveMinutes(text) ==
    \/ text = <<>>
    \/ Head(text) = "-"
    \/ IsNumeral(text) /\ NumeralValue(text) = 0

\* C6: in every reachable state the duration of every preset and of the draft is a
\* positive integer, and whatever the draft, handleDurationChange leaves it as it is
\* for a text that is no number or no positive number, and sets its duration to m
\* minutes' worth of seconds for a positive whole number m.
C6_DurationStaysPositive ==
    /\ \A i \in 1..Len(timers) : timers[i].duration \in Nat \ {0}
    /\ editingTimer # <<>>
          => /\ editingTimer[1].duration \in Nat \ {0}
             /\ \A text \in DurationTexts :
                   /\ NotPositiveMinutes(text)
                         => DraftWithDuration(editingTimer[1], text) = editingTimer[1]
                   /\ (IsNumeral(text) /\ NumeralValue(text) > 0)
                         => DraftWithDuration(editingTimer[1], text) =
                               [editingTimer[1] EXCEPT
                                   !.duration = NumeralValue(text) * SecondsPerMinute]

\* C6 witness: the duration field was given a positive whole number of minutes: the
\* draft is that long, the preset it was made of is still of the default length.
C6_Witness ==
    /\ EditView
    /\ editingTimer[1].duration = SecondsPerMinute
    /\ \E i \in 1..Len(timers) :
          timers[i].id = editingTimer[1].id /\ timers[i].duration = DefaultDuration

\* C7: in both variants, a completion whose audio code throws still leaves the
\* component mounted, with isActive false, completedPomodoros greater by one and
\* timeLeft at the stored duration of the active preset.
C7_AudioFailureContained ==
    [][(CompletionEvent /\ cue'.sound = "threw")
          => /\ mounted'
             /\ isActive' = FALSE
             /\ completedPomodoros' = completedPomodoros + 1
             /\ timeLeft' = ActiveDuration']_vars

\* C8: the collection is never empty and the active id is the id of one of its
\* presets; the initial state has the one preset "Work" of the default duration, which
\* is active, with timeLeft at that duration, the countdown stopped, no session
\* completed and no edit open.
C8_ActivePresetExists ==
    /\ timers = << [id |-> "1", name |-> "Work",
                    duration |-> DefaultMinutes * SecondsPerMinute] >>
    /\ activeTimerId = "1"
    /\ timeLeft = DefaultMinutes * SecondsPerMinute
    /\ ~isActive /\ completedPomodoros = 0 /\ ~isEditing
    /\ [](Len(timers) >= 1 /\ \E i \in 1..Len(timers) : timers[i].id = activeTimerId)

\* C8 witness: the collection has grown to its bound and a preset that was added is
\* the active one.
C8_Witness == mounted /\ Len(timers) = MaxTimers /\ activeTimerId # "1" /\ isActive

\* C9: the ids of the presets are pairwise distinct in every reachable state.
C9_IdsDistinct ==
    \A i, j \in 1..Len(timers) : i # j => timers[i].id # timers[j].id

\* C10: completedPomodoros never decreases while the component is mounted, and it
\* changes only in a completion event, which raises it by exactly one.
C10_CountOnlyCompletions ==
    [][(mounted' /\ completedPomodoros' # completedPomodoros)
          => (CompletionEvent /\ completedPomodoros' = completedPomodoros + 1)]_vars

\* C10 witness: a completion event has raised the count.
C10_Witness == mounted /\ completedPomodoros = 1 /\ pc = "dirty" /\ cue.sound # "none"

\* C11: at most one interval timer is set at any time; between the steps of the
\* scheduler one is set only while isActive is true and timeLeft is above zero; every
\* run of the clock effect that finds isActive false leaves none set, and so does the
\* unmount; no tick fires while isActive is false.
C11_OneTickStream ==
    /\ [](intervals \in {0, 1})
    /\ []((pc = "idle" /\ intervals > 0) => (isActive /\ timeLeft > 0))
    /\ [](~mounted => intervals = 0)
    /\ [][(ClockEffect /\ ~isActive') => intervals' = 0]_vars
    /\ [][Tick => isActive]_vars

\* C11 witness: a running countdown was paused below its start value, and the clock
\* effect that followed has cleared the interval.
C11_Witness ==
    /\ mounted /\ pc = "idle" /\ ~isActive /\ intervals = 0
    /\ effectDeps = ClockDeps(FALSE, timeLeft)
    /\ timeLeft > 0 /\ timeLeft < ActiveDuration /\ completedPomodoros = 0

\* What the notifier is to do for a permission state: show one notification when
\* granted, request permission when unset, nothing when denied.
NotifierDuty(permission) ==
    CASE permission = "granted" -> "shown"
      [] permission = "default" -> "requested"
      [] permission = "denied"  -> "none"

\* C12: at every completion event on a host that has system notifications, what the
\* notifier does follows from the permission state alone, whether the audio code
\* returned or threw: granted shows the notification and requests nothing, unset
\* requests permission and shows nothing, denied does neither.
C12_NotifyByPermission ==
    [][(CompletionEvent /\ cue'.permission \in {"granted", "default", "denied"})
          => cue'.notify = NotifierDuty(cue'.permission)]_vars

\* C13: the draft is present exactly when isEditing is true; startEditing sets
\* isEditing and makes the draft a copy of the id, name and duration of the preset
\* chosen, and saveEdit clears the draft and isEditing together.
C13_DraftIffEditing ==
    /\ []((editingTimer # <<>>) <=> isEditing)
    /\ [][\A i \in 1..Len(timers) :
             StartEditing(i)
                => /\ isEditing'
                   /\ editingTimer' = << [id |-> timers[i].id, name |-> timers[i].name,
                                          duration |-> timers[i].duration] >>]_vars
    /\ [][SaveEdit => (~isEditing' /\ editingTimer' = <<>>)]_vars

\* C13 witness: an edit of a preset that was renamed before was begun and then
\* committed with a new duration: no draft is left and the edit view is closed.
C13_Witness ==
    /\ mounted /\ ~isEditing /\ editingTimer = <<>>
    /\ \E i \in 1..Len(timers) :
          timers[i].name = "Focus" /\ timers[i].duration = SecondsPerMinute

\* C14: while the component is mounted no step removes or reorders presets or changes
\* an id, and saveEdit changes the name and duration of exactly one preset, the one
\* with the draft's id, and leaves every other preset and the length as they were.
C14_AppendOnlyOneEdited ==
    /\ [][mounted'
             => /\ Len(timers') >= Len(timers)
                /\ \A i \in 1..Len(timers) : timers'[i].id = timers[i].id]_vars
    /\ [][SaveEdit
             => /\ Len(timers') = Len(timers)
                /\ \E k \in 1..Len(timers) :
                      /\ timers[k].id = editingTimer[1].id
                      /\ timers'[k] = [timers[k] EXCEPT !.name = editingTimer[1].name,
                                                        !.duration = editingTimer[1].duration]
                      /\ \A i \in 1..Len(timers) : i # k => timers'[i] = timers[i]]_vars

\* C15: in every state in which the edit form is shown and takes input, some step of
\* the component discards the draft and closes the edit view while it leaves the
\* presets, the active id, timeLeft and isActive as they are, whatever the draft holds.
C15_CancelAvailable ==
    (Interactive /\ EditView)
       => ENABLED (/\ Next
                   /\ mounted' /\ ~isEditing' /\ editingTimer' = <<>>
                   /\ timers' = timers /\ activeTimerId' = activeTimerId
                   /\ timeLeft' = timeLeft /\ isActive' = isActive)

\* C16: startEditing and the two change handlers of the edit form leave the presets,
\* the active id, timeLeft, isActive and completedPomodoros as they are, and leave the
\* interval of a running countdown set.
C16_DraftEditsFrame ==
    [][(/\ Interactive /\ isEditing'
        /\ \/ \E i \in 1..Len(timers) : StartEditing(i)
           \/ \E text \in NameTexts : HandleNameChange(text)
           \/ \E minutes \in DurationTexts : HandleDurationChange(minutes))
          => /\ UNCHANGED <<timers, activeTimerId, timeLeft, isActive, completedPomodoros>>
             /\ intervals' = intervals]_vars

\* C16 witness: during a run an edit of the active preset was begun and its draft given
\* another name and duration; the preset is as it was and the countdown runs on.
C16_Witness ==
    /\ EditView /\ isActive /\ intervals = 1 /\ pc = "idle"
    /\ editingTimer[1].id = activeTimerId
    /\ editingTimer[1].name = "Focus" /\ editingTimer[1].duration # ActiveDuration
    /\ timers[Find(timers, activeTimerId)].name # "Focus"
    /\ timeLeft < ActiveDuration

\* C17: the Reset button stops the countdown and sets timeLeft to the stored duration
\* of the active preset, whatever draft is open, and leaves the active id, the presets
\* and completedPomodoros as they are; a completion event leaves the component
\* mounted with timeLeft at the stored duration of the active preset as well.
C17_ResetRereadsPreset ==
    /\ [][ResetTimer
             => /\ isActive' = FALSE
                /\ timeLeft' = ActiveDuration
                /\ UNCHANGED <<activeTimerId, timers, completedPomodoros>>]_vars
    /\ [][CompletionEvent => (mounted' /\ timeLeft' = ActiveDuration)]_vars

\* C18: in every reachable state timeLeft is at least zero and at most the stored
\* duration of the preset the active id resolves to.
C18_WithinActiveDuration ==
    /\ Find(timers, activeTimerId) # 0
    /\ 0 <= timeLeft
    /\ timeLeft <= timers[Find(timers, activeTimerId)].duration

\* The runs left to the clock, with the scheduling the browser and React give: an
\* interval that stays set fires, and a queued run of the clock effect is made.
SpecRunFair == SpecRun /\ WF_vars(Tick) /\ WF_vars(ClockEffect)

\* C19: once the countdown is running and nothing but the clock acts on it, a
\* completion eventually follows: isActive is false again and completedPomodoros is
\* greater by one.
C19_RunEventuallyCompletes ==
    \A n \in 0..(MaxCompleted - 1) :
        (mounted /\ isActive /\ completedPomodoros = n)
            ~> (mounted /\ ~isActive /\ completedPomodoros = n + 1)

\* C20: in no reachable state of the mounted component is the countdown stopped and at
\* zero, and a completion event happens only in a state in which isActive is true.
C20_CompletesOnlyRunning ==
    /\ [](mounted => ~(~isActive /\ timeLeft = 0))
    /\ [][CompletionEvent => isActive]_vars

\* The frame of toggleTimer: it flips isActive and leaves timeLeft, the active id, the
\* presets, completedPomodoros and the draft as they are.
ToggleFlipsOnly ==
    [][ToggleTimer
          => /\ isActive' = ~isActive
             /\ UNCHANGED <<timeLeft, activeTimerId, timers, completedPomodoros,
                            isEditing, editingTimer>>]_vars

\* C21: toggleTimer flips isActive and changes nothing else of the state, and the run
\* of the clock effect that follows a pause leaves timeLeft where the pause found it,
\* so that the countdown resumes from the value at which it was paused.
C21_ToggleKeepsCountdown ==
    /\ ToggleFlipsOnly
    /\ [][(ClockEffect /\ ~isActive) => (mounted' /\ timeLeft' = timeLeft)]_vars

====
